---- MODULE Spec2Model ----
\* An intrusive doubly linked list over caller-owned nodes (src/src/raw_list.rs):
\* List (front, back, len), Node (next, prev) and CursorMut (idx, current).
EXTENDS Integers, Sequences, FiniteSets

\* ---------------------------------------------------------------- bounds
\* Number of node addresses the caller owns.
NumNodes == 3
\* Width of usize in the model, in bits (TLC integers are 32-bit, so the
\* 64-bit width is scaled down; arithmetic is modulo 2^UsizeBits).
UsizeBits == 3
\* Cap on the push_front calls of the stack scenario.
MaxPushes == 5
\* Cap on the calls of a caller that hands detached nodes back in as they are.
MaxCalls == 7

Nodes == 1..NumNodes
\* Link<T> = Option<NonNull<Node<T>>>: the absent link is the null address.
None == 0
UsizeModulus == 2^UsizeBits

VARIABLES
  front,            \* List::front
  back,             \* List::back
  len,              \* List::len
  next,             \* Node::next of every node address
  prev,             \* Node::prev of every node address
  cursor,           \* TRUE while a CursorMut borrows the list
  idx,              \* CursorMut::idx, an Option<usize>: <<>> or <<i>>
  current,          \* CursorMut::current
  panicked,         \* the thread panicked on an arithmetic overflow
  overflow_checks,  \* build profile: overflow checks on (debug) or off (release)
  linked,           \* caller's record: nodes handed in and not yet returned
  last,             \* the last call: its name, argument, result and pre-state
  steps,            \* move_next calls made by a cursor that did nothing else
  calls,            \* number of calls made (counted where MaxCalls caps them)
  stack,            \* stack scenario: nodes pushed and not yet popped, newest first
  pushes,           \* stack scenario: number of push_front calls
  pops,             \* stack scenario: number of pop_front calls that returned a node
  expect,           \* stack scenario: what a stack returns for the last pop
  pushed,           \* symmetry scenario: the nodes in the order they were pushed
  popped,           \* symmetry scenario: the nodes in the order pop_back returned them
  back_walk,        \* move_prev calls made in a row from off-list, and where from
  run               \* cursor scenarios: phase, list at cursor_mut, start, results

vars == <<front, back, len, next, prev, cursor, idx, current, panicked,
          overflow_checks, linked, last, steps, calls, stack, pushes, pops,
          expect, pushed, popped, back_walk, run>>

\* ------------------------------------------------------------ the program
\* The memory the operations read and write, as one record; ret is the
\* value the call returns (None for calls that return nothing).
Mem ==
  [front |-> front, back |-> back, len |-> len, next |-> next, prev |-> prev,
   idx |-> idx, current |-> current, panicked |-> panicked, ret |-> None]

\* usize arithmetic: with overflow checks the operation panics when the
\* result leaves 0..usize::MAX, without them it wraps.
Overflows(x) == overflow_checks /\ (x < 0 \/ x >= UsizeModulus)
Wrap(x) == x % UsizeModulus
Panic(s) == [s EXCEPT !.panicked = TRUE]

\* Option<usize> helpers.
NoIdx == << >>
Some(x) == <<x>>
unwrap_or_default(o) == IF o = NoIdx THEN 0 ELSE o[1]

\* Node::new: both links absent.
Node_new(s, node) ==
  [s EXCEPT !.next[node] = None, !.prev[node] = None]

\* push_front that forgets to point the old front back at the new node.
push_front_no_backlink(s, node) ==
  LET s1 == IF s.front # None
            THEN [s EXCEPT !.next[node] = s.front]
            ELSE [s EXCEPT !.back = node]
      s2 == [s1 EXCEPT !.front = node]
  IN  IF Overflows(s2.len + 1) THEN Panic(s2)
      ELSE [s2 EXCEPT !.len = Wrap(s2.len + 1)]

\* push_front that links the node at the back.
push_front_at_back(s, node) ==
  LET s1 == IF s.back # None
            THEN [s EXCEPT !.prev[node] = s.back, !.next[s.back] = node]
            ELSE [s EXCEPT !.front = node]
      s2 == [s1 EXCEPT !.back = node]
  IN  IF Overflows(s2.len + 1) THEN Panic(s2)
      ELSE [s2 EXCEPT !.len = Wrap(s2.len + 1)]

\* List::push_front
push_front(s, node) ==
  LET s1 == IF s.front # None
            THEN [s EXCEPT !.next[node] = s.front, !.prev[s.front] = node]
            ELSE [s EXCEPT !.back = node]
      s2 == [s1 EXCEPT !.front = node]
  IN  IF Overflows(s2.len + 1) THEN Panic(s2)
      ELSE [s2 EXCEPT !.len = Wrap(s2.len + 1)]

\* List::push_back
push_back(s, node) ==
  LET s1 == IF s.back # None
            THEN [s EXCEPT !.prev[node] = s.back, !.next[s.back] = node]
            ELSE [s EXCEPT !.front = node]
      s2 == [s1 EXCEPT !.back = node]
  IN  IF Overflows(s2.len + 1) THEN Panic(s2)
      ELSE [s2 EXCEPT !.len = Wrap(s2.len + 1)]

\* pop_front that leaves back alone when it detaches the sole node.
pop_front_keeps_back(s) ==
  IF s.front = None THEN [s EXCEPT !.ret = None]
  ELSE
    LET old_front == s.front
        s1 == [s EXCEPT !.front = s.next[old_front]]
        s2 == IF s1.front # None
              THEN [s1 EXCEPT !.prev[s1.front] = None]
              ELSE s1
    IN  IF Overflows(s2.len - 1) THEN Panic(s2)
        ELSE [s2 EXCEPT !.len = Wrap(s2.len - 1), !.ret = old_front]

\* List::pop_front
pop_front(s) ==
  IF s.front = None THEN [s EXCEPT !.ret = None]
  ELSE
    LET old_front == s.front
        s1 == [s EXCEPT !.front = s.next[old_front]]
        s2 == IF s1.front # None
              THEN [s1 EXCEPT !.prev[s1.front] = None]
              ELSE [s1 EXCEPT !.back = None]
    IN  IF Overflows(s2.len - 1) THEN Panic(s2)
        ELSE [s2 EXCEPT !.len = Wrap(s2.len - 1), !.ret = old_front]

\* pop_back that takes the node at the front.
pop_back_takes_front(s) == pop_front(s)

\* pop_back that counts a node off an empty list.
pop_back_unguarded(s) ==
  IF s.back = None
  THEN IF Overflows(s.len - 1) THEN Panic(s)
       ELSE [s EXCEPT !.len = Wrap(s.len - 1), !.ret = None]
  ELSE
    LET old_back == s.back
        s1 == [s EXCEPT !.back = s.prev[old_back]]
        s2 == IF s1.back # None
              THEN [s1 EXCEPT !.next[s1.back] = None]
              ELSE [s1 EXCEPT !.front = None]
    IN  IF Overflows(s2.len - 1) THEN Panic(s2)
        ELSE [s2 EXCEPT !.len = Wrap(s2.len - 1), !.ret = old_back]

\* List::pop_back
pop_back(s) ==
  IF s.back = None THEN [s EXCEPT !.ret = None]
  ELSE
    LET old_back == s.back
        s1 == [s EXCEPT !.back = s.prev[old_back]]
        s2 == IF s1.back # None
              THEN [s1 EXCEPT !.next[s1.back] = None]
              ELSE [s1 EXCEPT !.front = None]
    IN  IF Overflows(s2.len - 1) THEN Panic(s2)
        ELSE [s2 EXCEPT !.len = Wrap(s2.len - 1), !.ret = old_back]

\* List::empty
empty(s) == s.len = 0

\* CursorMut::new (through List::cursor_mut)
CursorMut_new(s) == [s EXCEPT !.idx = NoIdx, !.current = None]

\* move_next that enters the list at the back.
move_next_from_back(s) ==
  IF s.current # None
  THEN IF Overflows(unwrap_or_default(s.idx) + 1) THEN Panic(s)
       ELSE [s EXCEPT !.idx = Some(Wrap(unwrap_or_default(s.idx) + 1)),
                      !.current = s.next[s.current]]
  ELSE [s EXCEPT !.idx = Some(0), !.current = s.back]

\* CursorMut::move_next
move_next(s) ==
  IF s.current # None
  THEN IF Overflows(unwrap_or_default(s.idx) + 1) THEN Panic(s)
       ELSE [s EXCEPT !.idx = Some(Wrap(unwrap_or_default(s.idx) + 1)),
                      !.current = s.next[s.current]]
  ELSE [s EXCEPT !.idx = Some(0), !.current = s.front]

\* move_prev that enters the list at the back with idx = len.
move_prev_idx_len(s) ==
  IF s.current # None
  THEN IF Overflows(unwrap_or_default(s.idx) - 1) THEN Panic(s)
       ELSE [s EXCEPT !.idx = Some(Wrap(unwrap_or_default(s.idx) - 1)),
                      !.current = s.prev[s.current]]
  ELSE [s EXCEPT !.idx = Some(Wrap(s.len)), !.current = s.back]

\* CursorMut::move_prev
move_prev(s) ==
  IF s.current # None
  THEN IF Overflows(unwrap_or_default(s.idx) - 1) THEN Panic(s)
       ELSE [s EXCEPT !.idx = Some(Wrap(unwrap_or_default(s.idx) - 1)),
                      !.current = s.prev[s.current]]
  ELSE IF Overflows(s.len - 1) THEN Panic(s)
       ELSE [s EXCEPT !.idx = Some(Wrap(s.len - 1)), !.current = s.back]

\* remove that does not point the predecessor at the successor.
remove_no_splice(s) ==
  LET link_current == s.current
      s1 == move_next(s)
  IN  IF s1.panicked THEN s1
      ELSE IF link_current = None THEN [s1 EXCEPT !.ret = link_current]
      ELSE IF s1.idx # NoIdx /\ Overflows(s1.idx[1] - 1) THEN Panic(s1)
      ELSE
        LET s2 == IF s1.idx = NoIdx THEN s1
                  ELSE [s1 EXCEPT !.idx = Some(Wrap(s1.idx[1] - 1))]
            o_prev == s2.prev[link_current]
            o_next == s2.next[link_current]
        IN  IF o_prev = None /\ o_next = None THEN pop_front(s2)
            ELSE IF o_prev = None THEN pop_front(s2)
            ELSE IF o_next = None THEN pop_back(s2)
            ELSE
              LET s4 == [s2 EXCEPT !.prev[o_next] = o_prev]
              IN  IF Overflows(s4.len - 1) THEN Panic(s4)
                  ELSE [s4 EXCEPT !.len = Wrap(s4.len - 1),
                                  !.prev[link_current] = None,
                                  !.next[link_current] = None,
                                  !.ret = link_current]

\* remove that detaches the front node when the cursor is on the back node.
remove_back_pops_front(s) ==
  LET link_current == s.current
      s1 == move_next(s)
  IN  IF s1.panicked THEN s1
      ELSE IF link_current = None THEN [s1 EXCEPT !.ret = link_current]
      ELSE IF s1.idx # NoIdx /\ Overflows(s1.idx[1] - 1) THEN Panic(s1)
      ELSE
        LET s2 == IF s1.idx = NoIdx THEN s1
                  ELSE [s1 EXCEPT !.idx = Some(Wrap(s1.idx[1] - 1))]
            o_prev == s2.prev[link_current]
            o_next == s2.next[link_current]
        IN  IF o_prev = None /\ o_next = None THEN pop_front(s2)
            ELSE IF o_prev = None THEN pop_front(s2)
            ELSE IF o_next = None THEN pop_front(s2)
            ELSE
              LET s3 == [s2 EXCEPT !.next[o_prev] = o_next]
                  s4 == [s3 EXCEPT !.prev[o_next] = o_prev]
              IN  IF Overflows(s4.len - 1) THEN Panic(s4)
                  ELSE [s4 EXCEPT !.len = Wrap(s4.len - 1),
                                  !.prev[link_current] = None,
                                  !.next[link_current] = None,
                                  !.ret = link_current]

\* CursorMut::remove
remove(s) ==
  LET link_current == s.current
      s1 == move_next(s)
  IN  IF s1.panicked THEN s1
      ELSE IF link_current = None THEN [s1 EXCEPT !.ret = link_current]
      ELSE IF s1.idx # NoIdx /\ Overflows(s1.idx[1] - 1) THEN Panic(s1)
      ELSE
        LET s2 == IF s1.idx = NoIdx THEN s1
                  ELSE [s1 EXCEPT !.idx = Some(Wrap(s1.idx[1] - 1))]
            o_prev == s2.prev[link_current]
            o_next == s2.next[link_current]
        IN  IF o_prev = None /\ o_next = None THEN pop_front(s2)
            ELSE IF o_prev = None THEN pop_front(s2)
            ELSE IF o_next = None THEN pop_back(s2)
            ELSE
              LET s3 == [s2 EXCEPT !.next[o_prev] = o_next]
                  s4 == [s3 EXCEPT !.prev[o_next] = o_prev]
              IN  IF Overflows(s4.len - 1) THEN Panic(s4)
                  ELSE [s4 EXCEPT !.len = Wrap(s4.len - 1),
                                  !.prev[link_current] = None,
                                  !.next[link_current] = None,
                                  !.ret = link_current]

\* insert_before that does not point the predecessor at the new node.
insert_before_no_prev_next(s, node) ==
  LET p_current == s.current
  IN  IF p_current = None THEN s
      ELSE
        LET p_prev == s.prev[p_current]
        IN  IF p_prev # None
            THEN
              LET s2 == [s EXCEPT !.prev[p_current] = node]
                  s3 == [s2 EXCEPT !.prev[node] = p_prev]
                  s4 == [s3 EXCEPT !.next[node] = p_current]
              IN  IF s4.idx # NoIdx /\ Overflows(s4.idx[1] + 1) THEN Panic(s4)
                  ELSE
                    LET s5 == IF s4.idx = NoIdx THEN s4
                              ELSE [s4 EXCEPT !.idx = Some(Wrap(s4.idx[1] + 1))]
                    IN  IF Overflows(s5.len + 1) THEN Panic(s5)
                        ELSE [s5 EXCEPT !.len = Wrap(s5.len + 1)]
            ELSE push_front(s, node)

\* insert_before that pushes the node at the front when the cursor is off-list.
insert_before_off_list_pushes(s, node) ==
  LET p_current == s.current
  IN  IF p_current = None THEN push_front(s, node)
      ELSE
        LET p_prev == s.prev[p_current]
        IN  IF p_prev # None
            THEN
              LET s1 == [s EXCEPT !.next[p_prev] = node]
                  s2 == [s1 EXCEPT !.prev[p_current] = node]
                  s3 == [s2 EXCEPT !.prev[node] = p_prev]
                  s4 == [s3 EXCEPT !.next[node] = p_current]
              IN  IF s4.idx # NoIdx /\ Overflows(s4.idx[1] + 1) THEN Panic(s4)
                  ELSE
                    LET s5 == IF s4.idx = NoIdx THEN s4
                              ELSE [s4 EXCEPT !.idx = Some(Wrap(s4.idx[1] + 1))]
                    IN  IF Overflows(s5.len + 1) THEN Panic(s5)
                        ELSE [s5 EXCEPT !.len = Wrap(s5.len + 1)]
            ELSE push_front(s, node)

\* CursorMut::insert_before
insert_before(s, node) ==
  LET p_current == s.current
  IN  IF p_current = None THEN s
      ELSE
        LET p_prev == s.prev[p_current]
        IN  IF p_prev # None
            THEN
              LET s1 == [s EXCEPT !.next[p_prev] = node]
                  s2 == [s1 EXCEPT !.prev[p_current] = node]
                  s3 == [s2 EXCEPT !.prev[node] = p_prev]
                  s4 == [s3 EXCEPT !.next[node] = p_current]
              IN  IF s4.idx # NoIdx /\ Overflows(s4.idx[1] + 1) THEN Panic(s4)
                  ELSE
                    LET s5 == IF s4.idx = NoIdx THEN s4
                              ELSE [s4 EXCEPT !.idx = Some(Wrap(s4.idx[1] + 1))]
                    IN  IF Overflows(s5.len + 1) THEN Panic(s5)
                        ELSE [s5 EXCEPT !.len = Wrap(s5.len + 1)]
            ELSE push_front(s, node)

\* ------------------------------------------------- reading the structure
\* The nodes met walking link f from node from, up to and including node to;
\* the walk also ends at an absent link, and after fuel nodes (a cycle).
RECURSIVE Walk(_, _, _, _)
Walk(f, from, to, fuel) ==
  IF from = None \/ fuel = 0 THEN << >>
  ELSE <<from>> \o (IF from = to THEN << >> ELSE Walk(f, f[from], to, fuel - 1))

\* Front-to-back: following next from front up to back.
Fwd(s) == Walk(s.next, s.front, s.back, NumNodes + 1)
\* Back-to-front: following prev from back up to front.
Bwd(s) == Walk(s.prev, s.back, s.front, NumNodes + 1)

Range(q) == {q[i] : i \in 1..Len(q)}
Reverse(q) == [i \in 1..Len(q) |-> q[Len(q) + 1 - i]]
\* q without its i-th element.
Delete(q, i) == [j \in 1..(Len(q) - 1) |-> IF j < i THEN q[j] ELSE q[j + 1]]
\* q with x put before its i-th element.
InsertAt(q, i, x) ==
  [j \in 1..(Len(q) + 1) |-> IF j < i THEN q[j] ELSE IF j = i THEN x ELSE q[j - 1]]
\* Position (1-based) of x in q, 0 when absent.
PosOf(q, x) == IF x \in Range(q) THEN CHOOSE i \in 1..Len(q) : q[i] = x ELSE 0

\* ------------------------------------------------------------- the steps
\* A call's effect on the variables; the call is recorded in last.
Install(op, node, s) ==
  /\ front' = s.front
  /\ back' = s.back
  /\ len' = s.len
  /\ next' = s.next
  /\ prev' = s.prev
  /\ idx' = s.idx
  /\ current' = s.current
  /\ panicked' = s.panicked
  /\ last' = [op |-> op, node |-> node, ret |-> s.ret, pre |-> Mem]
  /\ UNCHANGED overflow_checks

\* A node the caller may hand in: one it holds detached.
Detached(n) == n \notin linked
\* A detached node whose two links are absent.
Unlinked(n) == Detached(n) /\ next[n] = None /\ prev[n] = None

Init ==
  /\ front = None
  /\ back = None
  /\ len = 0
  /\ next = [n \in Nodes |-> None]
  /\ prev = [n \in Nodes |-> None]
  /\ cursor = FALSE
  /\ idx = NoIdx
  /\ current = None
  /\ panicked = FALSE
  /\ overflow_checks \in BOOLEAN
  /\ linked = {}
  /\ last = [op |-> "List::new", node |-> None, ret |-> None,
             pre |-> [front |-> None, back |-> None, len |-> 0,
                      next |-> [n \in Nodes |-> None],
                      prev |-> [n \in Nodes |-> None],
                      idx |-> NoIdx, current |-> None, panicked |-> FALSE,
                      ret |-> None]]
  /\ steps = 0 - 1
  /\ calls = 0
  /\ stack = << >>
  /\ pushes = 0
  /\ pops = 0
  /\ expect = None
  /\ pushed = << >>
  /\ popped = << >>
  /\ back_walk = [n |-> 0, from |-> "none"]
  /\ run = [phase |-> "build", orig |-> << >>, start |-> 0 - 1,
            removed |-> << >>, drained |-> 0, inserted |-> << >>]

Scenario == <<stack, pushes, pops, expect, pushed, popped, run>>
\* No backward walk is being followed.
NoWalk == [n |-> 0, from |-> "none"]

\* The caller writes Node::new into a node it holds detached.
NodeNew(n) ==
  /\ ~panicked
  /\ Detached(n)
  /\ ~(next[n] = None /\ prev[n] = None)
  /\ Install("Node::new", n, Node_new(Mem, n))
  /\ UNCHANGED <<cursor, linked, steps, back_walk, Scenario>>

\* list.push_front(n); the list is not borrowed by a cursor.
CallPushFront(n) ==
  /\ ~panicked /\ ~cursor
  /\ Install("push_front", n, push_front(Mem, n))
  /\ linked' = linked \cup {n}
  /\ UNCHANGED <<cursor, steps, back_walk>>

CallPushBack(n) ==
  /\ ~panicked /\ ~cursor
  /\ Install("push_back", n, push_back(Mem, n))
  /\ linked' = linked \cup {n}
  /\ UNCHANGED <<cursor, steps, back_walk>>

CallPopFront ==
  /\ ~panicked /\ ~cursor
  /\ Install("pop_front", None, pop_front(Mem))
  /\ linked' = linked \ {pop_front(Mem).ret}
  /\ UNCHANGED <<cursor, steps, back_walk>>

CallPopBack ==
  /\ ~panicked /\ ~cursor
  /\ Install("pop_back", None, pop_back(Mem))
  /\ linked' = linked \ {pop_back(Mem).ret}
  /\ UNCHANGED <<cursor, steps, back_walk>>

PushFront(n) == CallPushFront(n) /\ UNCHANGED Scenario
PushBack(n) == CallPushBack(n) /\ UNCHANGED Scenario
PopFront == CallPopFront /\ UNCHANGED Scenario
PopBack == CallPopBack /\ UNCHANGED Scenario

\* List::cursor_mut: the cursor borrows the list until it is dropped.
CallCursorMut ==
  /\ ~panicked /\ ~cursor
  /\ cursor' = TRUE
  /\ Install("cursor_mut", None, CursorMut_new(Mem))
  /\ steps' = 0
  /\ back_walk' = NoWalk
  /\ UNCHANGED linked

CallDropCursor ==
  /\ ~panicked /\ cursor
  /\ cursor' = FALSE
  /\ Install("drop", None, CursorMut_new(Mem))
  /\ steps' = 0 - 1
  /\ back_walk' = NoWalk
  /\ UNCHANGED linked

\* steps counts the move_next calls made since cursor_mut, as long as
\* nothing else was called and the walk is at most len + 1 calls long.
CallMoveNext ==
  /\ ~panicked /\ cursor
  /\ Install("move_next", None, move_next(Mem))
  /\ steps' = IF steps >= 0 /\ steps <= len THEN steps + 1 ELSE 0 - 1
  /\ back_walk' = NoWalk
  /\ UNCHANGED <<cursor, linked>>

\* back_walk counts the move_prev calls made in a row, starting off-list on
\* a non-empty list with a fresh cursor or one that move_next walked off
\* the tail, for at most len calls.
CallMovePrev ==
  /\ ~panicked /\ cursor
  /\ Install("move_prev", None, move_prev(Mem))
  /\ steps' = 0 - 1
  /\ back_walk' =
       IF current = None /\ len >= 1 /\ steps = 0
         THEN [n |-> 1, from |-> "fresh"]
       ELSE IF current = None /\ len >= 1 /\ steps = len + 1
         THEN [n |-> 1, from |-> "tail"]
       ELSE IF back_walk.n >= 1 /\ back_walk.n < len
         THEN [back_walk EXCEPT !.n = back_walk.n + 1]
       ELSE NoWalk
  /\ UNCHANGED <<cursor, linked>>

CallRemove ==
  /\ ~panicked /\ cursor
  /\ Install("remove", None, remove(Mem))
  /\ linked' = linked \ {remove(Mem).ret}
  /\ steps' = 0 - 1
  /\ back_walk' = NoWalk
  /\ UNCHANGED cursor

CallInsertBefore(n) ==
  /\ ~panicked /\ cursor
  /\ Install("insert_before", n, insert_before(Mem, n))
  /\ linked' = IF current # None THEN linked \cup {n} ELSE linked
  /\ steps' = 0 - 1
  /\ back_walk' = NoWalk
  /\ UNCHANGED cursor

CursorMut == CallCursorMut /\ UNCHANGED Scenario
DropCursor == CallDropCursor /\ UNCHANGED Scenario
MoveNext == CallMoveNext /\ UNCHANGED Scenario
MovePrev == CallMovePrev /\ UNCHANGED Scenario
Remove == CallRemove /\ UNCHANGED Scenario
InsertBefore(n) == CallInsertBefore(n) /\ UNCHANGED Scenario

\* Any caller that respects the API: a node is handed in only while the
\* caller holds it detached (fresh, or returned by a pop or a remove),
\* with whatever links it carries. Runs are cut after MaxCalls calls.
Counted(A) == calls < MaxCalls /\ calls' = calls + 1 /\ A

Next ==
  \/ \E n \in Nodes : Counted(NodeNew(n))
  \/ \E n \in Nodes : Detached(n) /\ Counted(PushFront(n))
  \/ \E n \in Nodes : Detached(n) /\ Counted(PushBack(n))
  \/ Counted(PopFront)
  \/ Counted(PopBack)
  \/ Counted(CursorMut)
  \/ Counted(DropCursor)
  \/ Counted(MoveNext)
  \/ Counted(MovePrev)
  \/ Counted(Remove)
  \/ \E n \in Nodes : Detached(n) /\ Counted(InsertBefore(n))

Spec == Init /\ [][Next]_vars

\* A caller that hands in only nodes whose two links are absent.
CleanNext ==
  \/ \E n \in Nodes : NodeNew(n) /\ UNCHANGED calls
  \/ \E n \in Nodes : Unlinked(n) /\ PushFront(n) /\ UNCHANGED calls
  \/ \E n \in Nodes : Unlinked(n) /\ PushBack(n) /\ UNCHANGED calls
  \/ PopFront /\ UNCHANGED calls
  \/ PopBack /\ UNCHANGED calls
  \/ CursorMut /\ UNCHANGED calls
  \/ DropCursor /\ UNCHANGED calls
  \/ MoveNext /\ UNCHANGED calls
  \/ MovePrev /\ UNCHANGED calls
  \/ Remove /\ UNCHANGED calls
  \/ \E n \in Nodes : Unlinked(n) /\ InsertBefore(n) /\ UNCHANGED calls

CleanSpec == Init /\ [][CleanNext]_vars

\* Stack scenario: push_front and pop_front only, from the empty list, with
\* nodes whose links are absent: fresh ones, and ones popped when they were
\* the sole node.
StackPush(n) ==
  /\ pushes < MaxPushes
  /\ Unlinked(n)
  /\ CallPushFront(n)
  /\ stack' = <<n>> \o stack
  /\ pushes' = pushes + 1
  /\ UNCHANGED <<pops, expect, pushed, popped, run, calls>>

StackPop ==
  /\ CallPopFront
  /\ expect' = IF stack = << >> THEN None ELSE Head(stack)
  /\ stack' = IF stack = << >> THEN stack ELSE Tail(stack)
  /\ pops' = IF pop_front(Mem).ret # None THEN pops + 1 ELSE pops
  /\ UNCHANGED <<pushes, pushed, popped, run, calls>>

StackNext ==
  \/ \E n \in Nodes : StackPush(n)
  \/ StackPop

StackSpec == Init /\ [][StackNext]_vars

\* Symmetry scenario: N distinct fresh nodes pushed with push_front, then
\* pop_back called N times.
SymPush(n) ==
  /\ popped = << >>
  /\ Unlinked(n)
  /\ n \notin Range(pushed)
  /\ CallPushFront(n)
  /\ pushed' = Append(pushed, n)
  /\ UNCHANGED <<stack, pushes, pops, expect, popped, run, calls>>

SymPop ==
  /\ Len(popped) < Len(pushed)
  /\ CallPopBack
  /\ popped' = Append(popped, pop_back(Mem).ret)
  /\ UNCHANGED <<stack, pushes, pops, expect, pushed, run, calls>>

SymNext ==
  \/ \E n \in Nodes : SymPush(n)
  \/ SymPop
  \/ \E n \in Nodes : NodeNew(n) /\ UNCHANGED calls

SymSpec == Init /\ [][SymNext]_vars

\* Cursor scenarios (test_cursor_remove, test_cursor_insert_before): fresh
\* nodes are pushed with push_front, a cursor is taken and moved with
\* move_next onto some position start, and then either removes while it has
\* a current node (the rest is drained with pop_front after the cursor is
\* dropped) or inserts fresh nodes before its position.
Others == <<stack, pushes, pops, expect, pushed, popped, calls>>

RunBuild(n) ==
  /\ run.phase = "build"
  /\ Unlinked(n)
  /\ CallPushFront(n)
  /\ UNCHANGED <<run, Others>>

RunCursor ==
  /\ run.phase = "build"
  /\ len >= 1
  /\ CallCursorMut
  /\ run' = [run EXCEPT !.phase = "seek", !.orig = Fwd(Mem)]
  /\ UNCHANGED Others

RunSeek ==
  /\ run.phase = "seek"
  /\ steps < Len(run.orig)
  /\ CallMoveNext
  /\ UNCHANGED <<run, Others>>

RunRemove ==
  /\ run.phase \in {"seek", "remove"}
  /\ current # None
  /\ CallRemove
  /\ run' = [run EXCEPT !.phase = "remove",
                        !.start = IF run.phase = "seek" THEN steps - 1 ELSE @,
                        !.removed = Append(@, remove(Mem).ret)]
  /\ UNCHANGED Others

RunDrop ==
  /\ run.phase = "remove"
  /\ current = None
  /\ CallDropCursor
  /\ run' = [run EXCEPT !.phase = "drain"]
  /\ UNCHANGED Others

RunDrain ==
  /\ run.phase = "drain"
  /\ CallPopFront
  /\ run' = IF pop_front(Mem).ret # None
            THEN [run EXCEPT !.drained = @ + 1]
            ELSE [run EXCEPT !.phase = "done"]
  /\ UNCHANGED Others

RemoveRunNext ==
  \/ \E n \in Nodes : RunBuild(n)
  \/ RunCursor
  \/ RunSeek
  \/ RunRemove
  \/ RunDrop
  \/ RunDrain

RemoveRunSpec == Init /\ [][RemoveRunNext]_vars

RunInsert(n) ==
  /\ run.phase \in {"seek", "insert"}
  /\ current # None
  /\ Unlinked(n)
  /\ CallInsertBefore(n)
  /\ run' = [run EXCEPT !.phase = "insert",
                        !.start = IF run.phase = "seek" THEN steps - 1 ELSE @,
                        !.inserted = Append(@, n)]
  /\ UNCHANGED Others

RunInsertDrop ==
  /\ run.phase = "insert"
  /\ CallDropCursor
  /\ run' = [run EXCEPT !.phase = "inserted"]
  /\ UNCHANGED Others

InsertRunNext ==
  \/ \E n \in Nodes : RunBuild(n)
  \/ RunCursor
  \/ RunSeek
  \/ \E n \in Nodes : RunInsert(n)
  \/ RunInsertDrop

InsertRunSpec == Init /\ [][InsertRunNext]_vars

\* ------------------------------------------------------------ properties
\* The list as the caller reads it off the structure.
Chain == Fwd(Mem)
PreChain == Fwd(last.pre)
\* The last call was op and ran to its end.
Did(op) == last.op = op /\ ~panicked

\* C1: after any sequence of pushes, pops, cursor removes and cursor
\* inserts by a caller that never hands in a node it has not got back
\* (nodes returned by a pop or a remove are handed in again as they are),
\* len equals the number of nodes met following next from front up to
\* back, and the number met following prev from back up to front.
C1_LengthInvariant ==
  /\ len = Len(Fwd(Mem))
  /\ len = Len(Bwd(Mem))

\* C2: with every node handed in carrying two absent links, every linked
\* node n has n.prev absent exactly when n is front and otherwise
\* n.prev.next = n, and n.next absent exactly when n is back and otherwise
\* n.next.prev = n.
C2_LinkConsistency ==
  \A n \in linked :
    /\ (prev[n] = None) <=> (n = front)
    /\ prev[n] # None => next[prev[n]] = n
    /\ (next[n] = None) <=> (n = back)
    /\ next[n] # None => prev[next[n]] = n

\* C2 witness: a node was spliced in between two linked nodes, and three
\* nodes are linked.
C2_Witness ==
  /\ Did("insert_before")
  /\ last.pre.current # None
  /\ last.pre.prev[last.pre.current] # None
  /\ Cardinality(linked) = 3

\* C3: with every node handed in carrying two absent links, front is
\* absent iff back is absent iff len = 0; empty() is true exactly when
\* front is absent; and detaching the sole node (by a pop or a cursor
\* remove) clears both front and back.
C3_EndsAgree ==
  /\ (front = None) <=> (back = None)
  /\ (front = None) <=> (len = 0)
  /\ empty(Mem) <=> (front = None)
  /\ (/\ last.op \in {"pop_front", "pop_back", "remove"}
      /\ last.ret # None
      /\ last.pre.len = 1) => (front = None /\ back = None)

\* C3 witness: the cursor removed the sole node and the list is empty.
C3_Witness ==
  /\ Did("remove")
  /\ last.ret # None
  /\ last.pre.len = 1
  /\ front = None /\ back = None /\ len = 0

\* C4: remove() with the cursor on the node at position i of the list
\* returns that node, leaves the cursor on its successor (off-list when
\* it had none), decrements len by 1, and leaves the front-to-back
\* sequence equal to the previous one with that node deleted.
C4_RemoveAtPosition ==
  (last.op = "remove" /\ last.pre.current # None) =>
    LET q == PreChain
        i == PosOf(PreChain, last.pre.current)
    IN  /\ ~panicked
        /\ i >= 1
        /\ last.ret = last.pre.current
        /\ current = (IF i < Len(q) THEN q[i + 1] ELSE None)
        /\ len = last.pre.len - 1
        /\ Chain = Delete(q, i)

\* C4 witness: the cursor removed an interior node.
C4_Witness ==
  /\ Did("remove")
  /\ last.pre.current # None
  /\ last.ret = last.pre.current
  /\ last.pre.prev[last.pre.current] # None
  /\ last.pre.next[last.pre.current] # None
  /\ current = last.pre.next[last.pre.current]

\* C5: insert_before(node) with the cursor on node c and node fresh makes
\* node the immediate predecessor of c in the front-to-back sequence,
\* keeps every other node's relative order, keeps the cursor on c, and
\* increases len by exactly 1; when c is the front, node is the new front.
C5_InsertBefore ==
  (last.op = "insert_before" /\ last.pre.current # None) =>
    LET q == PreChain
        i == PosOf(PreChain, last.pre.current)
    IN  /\ ~panicked
        /\ i >= 1
        /\ Chain = InsertAt(q, i, last.node)
        /\ current = last.pre.current
        /\ len = last.pre.len + 1
        /\ (i = 1 => front = last.node)

\* C5 witness: a node was inserted before the front node, and one before a
\* node that has a predecessor is C2's witness.
C5_Witness ==
  /\ Did("insert_before")
  /\ last.pre.current # None
  /\ last.pre.current = last.pre.front
  /\ front = last.node
  /\ next[front] = current
  /\ len >= 2

\* C6: a fresh cursor's k-th consecutive move_next lands on the node at
\* position k - 1 (for k up to the list's length n, each node of the list
\* being met once), and call n + 1 leaves the cursor off-list.
C6_Traversal ==
  steps >= 1 =>
    /\ ~panicked
    /\ len = Len(Chain)
    /\ Cardinality(Range(Chain)) = Len(Chain)
    /\ steps <= Len(Chain) => current = Chain[steps]
    /\ steps = Len(Chain) + 1 => current = None

\* C6 witness: the cursor walked a list of at least two nodes and is
\* off-list after len + 1 calls.
C6_Witness ==
  /\ Did("move_next")
  /\ len >= 2
  /\ steps = len + 1
  /\ current = None

\* C7: in any interleaving of push_front and pop_front from the empty
\* list, each pop_front returns the most recently pushed node not yet
\* popped (absent when there is none), and len is the number of pushes
\* minus the number of pops that returned a node.
C7_StackBehaviour ==
  /\ ~panicked
  /\ len = pushes - pops
  /\ last.op = "pop_front" => last.ret = expect

\* C7 witness: more pushes than there are nodes (so a node popped as the
\* sole element was pushed again), and a pop that returned a node while
\* another stays.
C7_Witness ==
  /\ Did("pop_front")
  /\ pushes > NumNodes
  /\ last.ret # None
  /\ len >= 1

\* C8: N distinct fresh nodes pushed with push_front onto the empty list
\* and then popped with N calls of pop_back come back in push order, and
\* the list is empty after the N-th pop.
C8_Symmetry ==
  /\ ~panicked
  /\ Len(popped) <= Len(pushed)
  /\ \A i \in 1..Len(popped) : popped[i] = pushed[i]
  /\ Len(popped) = Len(pushed) => (front = None /\ back = None /\ len = 0)

\* C8 witness: three nodes were pushed and all three popped.
C8_Witness ==
  /\ Did("pop_back")
  /\ Len(pushed) >= 3
  /\ popped = pushed

\* C9: pop_front and pop_back on an empty list return absent and leave
\* front, back and len (0, no underflow) and every link as they were.
C9_EmptyPops ==
  (last.op \in {"pop_front", "pop_back"} /\ last.pre.len = 0) =>
    /\ ~panicked
    /\ last.ret = None
    /\ front = None /\ back = None /\ len = 0
    /\ last.pre.front = None /\ last.pre.back = None
    /\ next = last.pre.next /\ prev = last.pre.prev

\* C9 witness: pop_back on a list that was used and emptied before.
C9_Witness ==
  /\ Did("pop_back")
  /\ last.pre.len = 0
  /\ last.ret = None
  /\ \E n \in Nodes : next[n] # None

\* C10: remove() with the cursor off-list returns absent and leaves the
\* list (front, back, len, every link) and the cursor (current absent,
\* off-list) as they were, whether or not the list is empty.
C10_RemoveOffList ==
  (last.op = "remove" /\ last.pre.current = None) =>
    /\ last.ret = None
    /\ front = last.pre.front /\ back = last.pre.back /\ len = last.pre.len
    /\ next = last.pre.next /\ prev = last.pre.prev
    /\ current = None

\* C11: insert_before(node) with the cursor off-list changes nothing: the
\* list (front, back, len, every link, the node's own links included) and
\* the cursor (current, idx) are as before, and the node is not in the list.
C11_InsertOffList ==
  (last.op = "insert_before" /\ last.pre.current = None) =>
    /\ ~panicked
    /\ front = last.pre.front /\ back = last.pre.back /\ len = last.pre.len
    /\ next = last.pre.next /\ prev = last.pre.prev
    /\ current = None /\ idx = last.pre.idx
    /\ last.node \notin Range(Chain)
    /\ last.node \notin linked

\* C11 witness: insert_before was called off-list on a non-empty list.
C11_Witness ==
  /\ Did("insert_before")
  /\ last.pre.current = None
  /\ len >= 1

\* The cursor of the removal scenario has removed until it went off-list.
RemovedToTheEnd == run.phase = "remove" /\ current = None /\ ~panicked

\* C12 as stated: a cursor put on any position of a non-empty list and
\* made to remove() until it is off-list has removed every node of the
\* list exactly once, and the list is empty when it goes off-list.
C12_RemoveAllAsStated ==
  RemovedToTheEnd =>
    /\ Range(run.removed) = Range(run.orig)
    /\ Len(run.removed) = Len(run.orig)
    /\ front = None /\ back = None /\ len = 0

\* C12 amended: such a cursor has removed, exactly once each and in order,
\* the nodes from its starting position to the back; the nodes before the
\* starting position stay linked, so the list is empty then exactly when
\* the start was position 0.
C12_RemoveToTheEnd ==
  RemovedToTheEnd =>
    /\ run.removed = SubSeq(run.orig, run.start + 1, Len(run.orig))
    /\ Cardinality(Range(run.removed)) = Len(run.removed)
    /\ Range(Chain) = Range(run.orig) \ Range(run.removed)
    /\ (len = 0) <=> (run.start = 0)

\* C12 witness: a cursor started on position 1 of three nodes went
\* off-list after two removals, one node staying linked.
C12_Witness ==
  /\ RemovedToTheEnd
  /\ Len(run.orig) = 3
  /\ run.start = 1
  /\ Len(run.removed) = 2
  /\ len = 1

\* C13: on a list of n fresh nodes with the cursor moved to position k,
\* removing while the cursor has a current node ends after exactly n - k
\* removals, which return the nodes of positions k..n-1 in order (each a
\* different node); len is then k with the first k nodes linked in their
\* original order, and draining them with pop_front brings the number of
\* detached nodes to n.
C13_RemovalAccounting ==
  run.phase \in {"remove", "drain", "done"} =>
    LET n == Len(run.orig)
        k == run.start
        r == Len(run.removed)
    IN  /\ ~panicked
        /\ 0 <= k /\ k < n /\ r <= n - k
        /\ run.removed = SubSeq(run.orig, k + 1, k + r)
        /\ Cardinality(Range(run.removed)) = r
        /\ run.phase = "remove" =>
             /\ (current = None) <=> (r = n - k)
             /\ current # None => current = run.orig[k + r + 1]
             /\ len = n - r
             /\ Chain = SubSeq(run.orig, 1, k) \o SubSeq(run.orig, k + r + 1, n)
        /\ run.phase \in {"drain", "done"} => r = n - k
        /\ run.phase = "drain" =>
             /\ len = k - run.drained
             /\ Chain = SubSeq(run.orig, run.drained + 1, k)
        /\ run.phase = "done" =>
             /\ r + run.drained = n
             /\ len = 0 /\ front = None /\ back = None

\* C13 witness: three nodes, cursor moved to position 1: two removals,
\* then one node drained, three detached in all.
C13_Witness ==
  /\ run.phase = "done"
  /\ ~panicked
  /\ Len(run.orig) = 3
  /\ run.start = 1
  /\ Len(run.removed) = 2
  /\ run.drained = 1

\* C14: with the cursor on any position of a list of n nodes, K
\* insert_before calls in a row with K distinct fresh nodes leave
\* len = n + K, and the front-to-back walk then meets exactly len
\* different nodes (the n old ones and the K new ones).
C14_InsertCount ==
  run.phase \in {"insert", "inserted"} =>
    /\ ~panicked
    /\ Cardinality(Range(run.inserted)) = Len(run.inserted)
    /\ len = Len(run.orig) + Len(run.inserted)
    /\ Len(Chain) = len
    /\ Cardinality(Range(Chain)) = len
    /\ Range(Chain) = Range(run.orig) \cup Range(run.inserted)

\* C14 witness: two nodes were inserted in a row before a cursor that is
\* not on the front any more, and the cursor was dropped.
C14_Witness ==
  /\ run.phase = "inserted"
  /\ ~panicked
  /\ Len(run.inserted) = 2
  /\ len = Len(run.orig) + 2

\* C15: whenever the cursor has a current node, its stored idx is that
\* node's 0-based position from front (after any move_next, move_prev,
\* remove and insert_before, insert_before at the front included).
C15_IndexIsPosition ==
  (cursor /\ current # None) => idx = Some(PosOf(Chain, current) - 1)

\* C16: move_prev() with the cursor on the front node leaves the cursor
\* off-list and does not underflow: there is no panic and the stored
\* index is not the wrapped-around usize::MAX.
C16_MovePrevAtFront ==
  (/\ last.op = "move_prev"
   /\ last.pre.current # None
   /\ last.pre.current = last.pre.front) =>
    /\ ~panicked
    /\ current = None
    /\ idx # Some(UsizeModulus - 1)

\* C17: move_prev() from off-list lands on the back node with
\* idx = len - 1 on a non-empty list, and on an empty list leaves the
\* cursor off-list without underflowing len() - 1 (no panic, no
\* wrapped-around index).
C17_MovePrevOffList ==
  (last.op = "move_prev" /\ last.pre.current = None) =>
    /\ ~panicked
    /\ last.pre.len >= 1 =>
         (current = last.pre.back /\ idx = Some(last.pre.len - 1))
    /\ last.pre.len = 0 =>
         (current = None /\ idx # Some(UsizeModulus - 1))

\* C18: on a list of n >= 1 nodes, from off-list (a fresh cursor, or one
\* that move_next walked off the tail), the k-th move_prev in a row
\* (k <= n) lands on the node at position n - k with idx = n - k, so n
\* calls meet every node once, back to front.
C18_BackwardTraversal ==
  back_walk.n >= 1 =>
    /\ ~panicked
    /\ len = Len(Chain)
    /\ Cardinality(Range(Chain)) = len
    /\ back_walk.n <= len
    /\ current = Chain[len - back_walk.n + 1]
    /\ idx = Some(len - back_walk.n)

\* C18 witness: a cursor that walked off the tail of a list of at least
\* two nodes came back to the front in len calls of move_prev.
C18_Witness ==
  /\ Did("move_prev")
  /\ back_walk.from = "tail"
  /\ len >= 2
  /\ back_walk.n = len
  /\ current = front
  /\ idx = Some(0)

\* C19: every node returned by pop_front, pop_back or the cursor's
\* remove() has both its links absent on return.
C19_DetachedHasNoLinks ==
  (last.op \in {"pop_front", "pop_back", "remove"} /\ last.ret # None) =>
    /\ next[last.ret] = None
    /\ prev[last.ret] = None

====
